---- MODULE Spec2Model ----
(***************************************************************************)
(* A model of mdgo's PackmolWrapper (src/mdgo/mdgopackmol.py): the object  *)
(* built by __init__, make_packmol_input, which writes the Packmol control *)
(* file and the sidecar structure files, and run_packmol, which launches   *)
(* the external tool and inspects what it returned.                        *)
(*                                                                         *)
(* Text is modelled by its content.  Captured output is a sequence of      *)
(* bytes, decoded text a sequence of one-character strings, a line of a     *)
(* written file the sequence of its space-separated fields, a file the      *)
(* sequence of its lines, a filesystem path the sequence of its components *)
(* (an absolute path starts with the component "/").  Floats are carried    *)
(* in tenths, which is exact for every value the model draws.              *)
(***************************************************************************)
EXTENDS Integers, Sequences, FiniteSets, TLC

VARIABLES
    \* --- the object's fields (__init__) and the process's directory
    path, input, output, screen, molecules, control_params, box, tolerance,
    seed, cwd,
    \* --- the filesystem: absolute path -> content, for the files that exist
    files,
    \* --- run_packmol: the external process's outcome in the last call, what
    \*     the call raised, how many processes it launched
    p, raised, launched,
    \* --- history: the decoded stdout of the most recent successful run
    lastOk,
    \* --- make_packmol_input: what the last call raised, the files it loaded,
    \*     the structures it measured, its net_volume (in thousandths of a
    \*     cubic angstrom), the side length it printed
    mkRaised, loaded, measured, net_volume, printed

objVars == <<path, input, output, screen, molecules, control_params, box,
             tolerance, seed, cwd>>
runVars == <<p, raised, launched, lastOk>>
mkVars == <<mkRaised, loaded, measured, net_volume, printed>>
vars == <<objVars, files, runVars, mkVars>>

(***************************************************************************)
(* Bounds of the model.                                                    *)
(***************************************************************************)
\* the captured stdout is built from at most MaxTok pieces
MaxTok == 3
\* at most MaxMols molecule dicts are given to the constructor
MaxMols == 2

(***************************************************************************)
(* Generic helpers.                                                        *)
(***************************************************************************)
SeqsUpTo(S, n) == UNION {[1..k -> S] : k \in 0..n}

RECURSIVE Flatten(_)
Flatten(ss) == IF ss = <<>> THEN <<>> ELSE Head(ss) \o Flatten(Tail(ss))

\* files with file f (re)written to hold c
Put(fs, f, c) == [x \in (DOMAIN fs) \cup {f} |-> IF x = f THEN c ELSE fs[x]]

(***************************************************************************)
(* Paths.                                                                  *)
(***************************************************************************)
IsAbs(f) == f # <<>> /\ f[1] = "/"

\* os.path.join(a, b): an absolute b discards a
OsPathJoin(a, b) == IF IsAbs(b) THEN b ELSE a \o b

\* the file a path names for a process whose current directory is d
Resolve(d, f) == OsPathJoin(d, f)

\* the directory holding file f
DirOf(f) == SubSeq(f, 1, Len(f) - 1)

\* the path as the string Python holds: components joined by "/"
RECURSIVE PathStr(_)
PathStr(f) ==
    IF f = <<>> THEN ""
    ELSE IF Len(f) = 1 THEN f[1]
    ELSE IF f[1] = "/" THEN "/" \o PathStr(Tail(f))
    ELSE f[1] \o "/" \o PathStr(Tail(f))

(***************************************************************************)
(* run_packmol.                                                            *)
(***************************************************************************)
\* the bytes of the marker "ERROR" that run_packmol looks for
ERROR == <<69, 82, 82, 79, 82>>

\* the character of an ASCII byte the model uses
Chr(b) == CASE b = 69 -> "E" [] b = 82 -> "R" [] b = 79 -> "O"
            [] b = 120 -> "x" [] OTHER -> "?"

\* bytes.decode(): UTF-8. The bytes F8..FF occur in no UTF-8 text, and every
\* other byte the model draws is ASCII; ok is FALSE for UnicodeDecodeError.
decode(bs) ==
    IF \E i \in 1..Len(bs) : bs[i] >= 248
    THEN [ok |-> FALSE, text |-> <<>>]
    ELSE [ok |-> TRUE, text |-> [i \in 1..Len(bs) |-> Chr(bs[i])]]

\* the least index at which sep occurs in s, 0 if it does not occur
Find(s, sep) ==
    LET hits == {i \in 1..(Len(s) - Len(sep) + 1) :
                    SubSeq(s, i, i + Len(sep) - 1) = sep}
    IN IF hits = {} THEN 0
       ELSE CHOOSE i \in hits : \A j \in hits : i <= j

\* sep in s
Contains(s, sep) == Find(s, sep) # 0

\* str.split(sep): the pieces between the occurrences of sep, left to right
RECURSIVE Split(_, _)
Split(s, sep) ==
    LET i == Find(s, sep)
    IN IF i = 0 THEN <<s>>
       ELSE <<SubSeq(s, 1, i - 1)>>
            \o Split(SubSeq(s, i + Len(sep), Len(s)), sep)

\* lst[-1]
Last(lst) == lst[Len(lst)]

NoRaise == [exc |-> "none", kind |-> "", code |-> 0, stderr |-> <<>>, text |-> <<>>]

\* (variant: check=True left out)
SubprocessRun_NoCheck(proc) ==
    IF proc.timedOut THEN "TimeoutExpired" ELSE "completed"

\* subprocess.run(..., check=True, timeout=timeout): one process is launched;
\* proc is what it did
SubprocessRun(proc) ==
    IF proc.timedOut THEN "TimeoutExpired"
    ELSE IF proc.returncode # 0 THEN "CalledProcessError"
    ELSE "completed"

\* (variant: split("ERROR", 1)[1], the text after the first marker)
StdoutMsg_AfterFirst(out) ==
    SubSeq(out, Find(out, decode(ERROR).text) + Len(ERROR), Len(out))

\* the text of the ValueError raised for a zero exit code whose stdout holds
\* the marker
StdoutMsg(out) == Last(Split(out, decode(ERROR).text))

\* What run_packmol raises for the process outcome proc.
RunRaises(proc) ==
    LET r == SubprocessRun(proc) IN
    IF r = "TimeoutExpired"
    THEN [NoRaise EXCEPT !.exc = "TimeoutExpired"]
    ELSE IF r = "CalledProcessError"
    THEN [NoRaise EXCEPT !.exc = "ValueError", !.kind = "errorcode",
                         !.code = proc.returncode, !.stderr = proc.stderr]
    ELSE LET d == decode(proc.stdout) IN
         IF ~d.ok THEN [NoRaise EXCEPT !.exc = "UnicodeDecodeError"]
         ELSE IF Contains(d.text, decode(ERROR).text)
         THEN [NoRaise EXCEPT !.exc = "ValueError", !.kind = "stdout",
                              !.text = StdoutMsg(d.text)]
         ELSE NoRaise

\* (variant: the write in a finally: branch)
WritesScreen_Finally(r) == r.exc \in {"none", "TimeoutExpired"}

\* (variant: the write after the try statement, reached when the marker is
\* only reported)
WritesScreen_AfterMarker(r) == r.exc = "none" \/ r.kind = "stdout"

\* the else: branch of the try statement runs when the try body raised nothing
WritesScreen(r) == r.exc = "none"

\* the processes one call launches: subprocess.run is called once
Launches(proc) == 1

\* the pieces stdout is built from: the marker, an ordinary character, a byte
\* that is not UTF-8
StdoutPieces == {ERROR, <<120>>, <<255>>}
Stdouts == {Flatten(ss) : ss \in SeqsUpTo(StdoutPieces, MaxTok)}
Stderrs == {<<>>, <<120>>}
ProcOutcomes ==
    [timedOut : {FALSE}, returncode : {0, 1, 2}, stdout : Stdouts, stderr : Stderrs]
    \cup [timedOut : {TRUE}, returncode : {0}, stdout : Stdouts, stderr : {<<>>}]

NoProc == [timedOut |-> FALSE, returncode |-> 0, stdout |-> <<>>, stderr |-> <<>>]

\* a run that run_packmol counts as a success, read off the process outcome
Successful(proc) ==
    /\ ~proc.timedOut
    /\ proc.returncode = 0
    /\ decode(proc.stdout).ok
    /\ ~Contains(proc.stdout, ERROR)

RunPackmol ==
    \E proc \in ProcOutcomes :
        \E r \in {RunRaises(proc)} :
        /\ p' = proc
        /\ raised' = r
        /\ launched' = Launches(proc)
        /\ files' = IF WritesScreen(r)
                    THEN Put(files, Resolve(cwd, screen), decode(proc.stdout).text)
                    ELSE files
        /\ lastOk' = IF Successful(proc)
                     THEN [some |-> TRUE, text |-> decode(proc.stdout).text]
                     ELSE lastOk
        /\ UNCHANGED <<objVars, mkVars>>

(***************************************************************************)
(* Numbers and their str().                                                *)
(***************************************************************************)
\* an int, and a float given in tenths
I(n) == [t |-> "int", v |-> n]
F(tenths) == [t |-> "float", v |-> tenths]

\* str(x) of an int or of a float with one decimal digit
Str(x) ==
    IF x.t = "int" THEN ToString(x.v)
    ELSE IF x.v < 0
         THEN "-" \o ToString((0 - x.v) \div 10) \o "." \o ToString((0 - x.v) % 10)
         ELSE ToString(x.v \div 10) \o "." \o ToString(x.v % 10)

\* the value in tenths
Tenths(x) == IF x.t = "int" THEN 10 * x.v ELSE x.v

\* " ".join(strs), as the fields of the text it makes
JoinSp(strs) == IF strs = <<>> THEN <<"">> ELSE strs

StrAll(xs) == [i \in 1..Len(xs) |-> Str(xs[i])]

(***************************************************************************)
(* make_packmol_input: the box.                                            *)
(***************************************************************************)
\* if self.box: None and the empty list are false
Truthy(b) == b.given /\ b.vals # <<>>

IsMolecule(c) == c.kind = "Molecule"

\* the structure a coords value stands for: the object itself, or the content
\* of the file it names
StructOf(c) ==
    IF c.kind = "Molecule" THEN c.id
    ELSE IF c.kind = "Path" THEN PathStr(c.parts)
    ELSE c.s

\* molecular_volume(mol, radii_type="pymatgen", molar_volume=False), in tenths
\* of a cubic angstrom: a property of the structure, computed elsewhere
molecular_volume(st) ==
    CASE st = "a.xyz" -> 20 [] st = "mols/b.xyz" -> 10 [] OTHER -> 20

\* the index at which the estimation loop raises: the first file it cannot
\* load, or Len(mols) + 1 when it loads them all
LoadStop(mols, fault) ==
    IF /\ fault.at = "load"
       /\ fault.idx \in 1..Len(mols)
       /\ ~IsMolecule(mols[fault.idx].coords)
    THEN fault.idx
    ELSE Len(mols) + 1

\* the files Molecule.from_file has loaded before index stop
RECURSIVE LoadedBefore(_, _)
LoadedBefore(mols, stop) ==
    IF stop <= 1 \/ mols = <<>> THEN <<>>
    ELSE LET d == mols[stop - 1]
             rest == LoadedBefore(mols, stop - 1)
         IN IF IsMolecule(d.coords) THEN rest ELSE Append(rest, StructOf(d.coords))

\* the structures molecular_volume was called on before index stop
MeasuredBefore(mols, stop) ==
    [i \in 1..(IF stop - 1 < Len(mols) THEN stop - 1 ELSE Len(mols))
        |-> StructOf(mols[i].coords)]

\* (variant: net_volume = vol * d["number"], not accumulated)
NetVolume_NotAccumulated(mols, tol, n) ==
    IF n = 0 THEN 0
    ELSE (molecular_volume(StructOf(mols[n].coords)) * Tenths(tol))
         * Tenths(mols[n].number)

\* vol *= self.tolerance; net_volume += vol * d["number"], in thousandths:
\* the sum over the first n molecules
RECURSIVE NetVolume(_, _, _)
NetVolume(mols, tol, n) ==
    IF n = 0 THEN 0
    ELSE NetVolume(mols, tol, n - 1)
         + (molecular_volume(StructOf(mols[n].coords)) * Tenths(tol))
           * Tenths(mols[n].number)

\* "{:.1f}".format(net_volume ** (1.0 / 3.0)) for net_volume given in
\* thousandths, as a float in tenths: with L the cube root, the least T with
\* 10 L < T + 1/2, that is with 8 net < (2T+1)^3; no net has 10 L = T + 1/2,
\* for (2T+1)^3 is odd
RECURSIVE RoundUpFrom(_, _)
RoundUpFrom(T, net) ==
    IF 8 * net < (2*T + 1) * (2*T + 1) * (2*T + 1) THEN T
    ELSE RoundUpFrom(T + 1, net)

BoxLength(net) == CHOOSE T \in {RoundUpFrom(0, n) : n \in {net}} : TRUE

\* (variant: the values regrouped per axis, xlo xhi ylo yhi zlo zhi)
BoxListGiven_PerAxis(b) ==
    JoinSp(StrAll([i \in 1..Len(b.vals) |->
        IF Len(b.vals) = 6 THEN b.vals[<<1, 4, 2, 5, 3, 6>>[i]] ELSE b.vals[i]]))

\* box_list, as the fields of the string
BoxListGiven(b) == JoinSp(StrAll(b.vals))
BoxListEstimated(box_length) ==
    <<"0.0", "0.0", "0.0", Str(F(box_length)), Str(F(box_length)),
      Str(F(box_length))>>

(***************************************************************************)
(* make_packmol_input: the control file.                                   *)
(***************************************************************************)
Blank == <<"">>

\* "# " + " + ".join(str(d["number"]) + " " + d["name"] for d in molecules)
RECURSIVE HeaderItems(_)
HeaderItems(mols) ==
    IF mols = <<>> THEN <<>>
    ELSE LET d == Head(mols) IN
         <<Str(d.number), d.name>>
         \o (IF Tail(mols) = <<>> THEN <<>> ELSE <<"+">> \o HeaderItems(Tail(mols)))

HeaderLines(mols) ==
    << <<"#">> \o JoinSp(HeaderItems(mols)),
       <<"#", "Packmol", "input", "generated", "by", "mdgo.">> >>

\* one line per item of control_params, in the mapping's order
ParamLine(kv) ==
    IF kv.v.t = "list" THEN <<kv.k>> \o JoinSp(StrAll(kv.v.items))
    ELSE <<kv.k, Str(kv.v)>>

\* (variant: the items taken in reverse order)
ParamLines_Reversed(params) ==
    [i \in 1..Len(params) |-> ParamLine(params[Len(params) + 1 - i])]

ParamLines(params) == [i \in 1..Len(params) |-> ParamLine(params[i])]

SeedLines(sd, tol) ==
    << <<"seed", Str(sd)>>, <<"tolerance", Str(tol)>>, Blank >>

OutputLines(outp) ==
    << <<"filetype", "xyz">>, Blank,
       <<"output", "\"" \o PathStr(outp) \o "\"">>, Blank >>

\* the name of the sidecar file of the molecule at zero-based position i
SidecarName(i) == "packmol_molecule_" \o ToString(i) \o ".xyz"

\* where Molecule.to(filename=f"packmol_molecule_{i}.xyz") writes the sidecar
\* file: the name is relative, so it is resolved against the process's current
\* directory wd, and self.path (dir) plays no part
SidecarFile(dir, wd, i) == Resolve(wd, <<SidecarName(i)>>)

\* (variant: no branch for pathlib.Path)
StructureLine_NoPath(d, i) ==
    IF d.coords.kind = "str" THEN << <<"structure", d.coords.s>> >>
    ELSE IF d.coords.kind = "Molecule" THEN << <<"structure", SidecarName(i)>> >>
    ELSE <<>>

\* the structure line of the molecule at zero-based position i, no line when
\* coords is none of str, Path, Molecule
StructureLine(d, i) ==
    IF d.coords.kind = "str" THEN << <<"structure", d.coords.s>> >>
    ELSE IF d.coords.kind = "Path" THEN << <<"structure", PathStr(d.coords.parts)>> >>
    ELSE IF d.coords.kind = "Molecule" THEN << <<"structure", SidecarName(i)>> >>
    ELSE <<>>

\* the lines written for the molecule at zero-based position i
Block(d, i, box_list) ==
    StructureLine(d, i)
    \o << <<"", "", "number", Str(d.number)>>,
          <<"", "", "inside", "box">> \o box_list,
          <<"end", "structure">>,
          Blank >>

\* the blocks of the first n molecules
RECURSIVE Blocks(_, _, _)
Blocks(mols, n, box_list) ==
    IF n = 0 THEN <<>>
    ELSE Blocks(mols, n - 1, box_list) \o Block(mols[n], n - 1, box_list)

\* the index at which the block loop raises: the first Molecule whose to()
\* fails, or Len(mols) + 1
ToStop(mols, fault) ==
    IF /\ fault.at = "to"
       /\ fault.idx \in 1..Len(mols)
       /\ IsMolecule(mols[fault.idx].coords)
    THEN fault.idx
    ELSE Len(mols) + 1

\* the files after the sidecar files of the Molecules before index stop are
\* written
RECURSIVE WithSidecars(_, _, _, _, _)
WithSidecars(fs, mols, stop, dir, wd) ==
    IF stop <= 1 THEN fs
    ELSE LET d == mols[stop - 1]
             before == WithSidecars(fs, mols, stop - 1, dir, wd)
         IN IF IsMolecule(d.coords)
            THEN Put(before, SidecarFile(dir, wd, stop - 2),
                     [xyz |-> d.coords.id, whole |-> TRUE])
            ELSE before

\* with open(self.input, "w"): the file holds what was written when the block
\* is left, by return or by exception
ControlFileText(mols, params, sd, tol, outp, box_list, stop) ==
    HeaderLines(mols) \o ParamLines(params) \o SeedLines(sd, tol)
    \o OutputLines(outp)
    \o Blocks(mols, IF stop > Len(mols) THEN Len(mols) ELSE stop - 1, box_list)

NoFault == [at |-> "none", idx |-> 0, partial |-> FALSE]
Faults ==
    {NoFault, [at |-> "open", idx |-> 0, partial |-> FALSE]}
    \cup [at : {"load"}, idx : 1..MaxMols, partial : {FALSE}]
    \cup [at : {"to"}, idx : 1..MaxMols, partial : BOOLEAN]

\* the fault hits a step this call of make_packmol_input takes
Strikes(fault) ==
    \/ fault.at \in {"none", "open"}
    \/ fault.at = "load" /\ ~Truthy(box) /\ LoadStop(molecules, fault) <= Len(molecules)
    \/ fault.at = "to" /\ ToStop(molecules, fault) <= Len(molecules)

\* lines 128-147: the box_list of this call and the side length it prints
\* ("" when the box was given), once every file was loaded
BoxOfCall ==
    IF Truthy(box)
    THEN [box_list |-> BoxListGiven(box), printed |-> ""]
    ELSE CHOOSE b \in
            {[box_list |-> BoxListEstimated(T), printed |-> Str(F(T))] :
                T \in {BoxLength(NetVolume(molecules, tolerance, Len(molecules)))}} :
            TRUE

\* lines 149-175: the files after the with block is left at index tstop of
\* the block loop (Len(molecules) + 1: the loop ended)
FilesWritten(box_list, tstop, partial) ==
    LET text == ControlFileText(molecules, control_params, seed, tolerance,
                                output, box_list, tstop)
        side == WithSidecars(files, molecules, tstop, path, cwd)
        torn == IF tstop <= Len(molecules) /\ partial
                THEN Put(side, SidecarFile(path, cwd, tstop - 1),
                         [xyz |-> molecules[tstop].coords.id, whole |-> FALSE])
                ELSE side
    IN Put(torn, Resolve(cwd, input), text)

\* make_packmol_input under the fault the environment injects: what it
\* raises and leaves behind
MakeOutcome(fault) ==
    LET est == ~Truthy(box)
        lstop == IF est THEN LoadStop(molecules, fault) ELSE Len(molecules) + 1
        net == IF est THEN NetVolume(molecules, tolerance, lstop - 1) ELSE 0
        ld == IF est THEN LoadedBefore(molecules, lstop) ELSE <<>>
        ms == IF est THEN MeasuredBefore(molecules, lstop) ELSE <<>>
        tstop == ToStop(molecules, fault)
    IN
    IF est /\ lstop <= Len(molecules)
    THEN [raised |-> "LoadError", files |-> files, loaded |-> ld,
          measured |-> ms, net_volume |-> net, printed |-> ""]
    ELSE CHOOSE o \in
            {IF fault.at = "open"
             THEN [raised |-> "OpenError", files |-> files, loaded |-> ld,
                   measured |-> ms, net_volume |-> net, printed |-> b.printed]
             ELSE [raised |-> IF tstop <= Len(molecules) THEN "ToError" ELSE "none",
                   files |-> FilesWritten(b.box_list, tstop, fault.partial),
                   loaded |-> ld, measured |-> ms, net_volume |-> net,
                   printed |-> b.printed] :
                b \in {BoxOfCall}} : TRUE

MakePackmolInput ==
    \E fault \in {f \in Faults : Strikes(f)} : \E o \in {MakeOutcome(fault)} :
        /\ mkRaised' = o.raised
        /\ files' = o.files
        /\ loaded' = o.loaded
        /\ measured' = o.measured
        /\ net_volume' = o.net_volume
        /\ printed' = o.printed
        /\ UNCHANGED <<objVars, runVars>>

(***************************************************************************)
(* The constructed object and the two specifications.                      *)
(***************************************************************************)
WorkDir == <<"/", "work">>
Dirs == {WorkDir, <<"/", "home">>}

MoleculeDicts ==
    {[name |-> "A", number |-> I(2), coords |-> [kind |-> "str", s |-> "a.xyz"]],
     [name |-> "B", number |-> I(3),
      coords |-> [kind |-> "Path", parts |-> <<"mols", "b.xyz">>]],
     [name |-> "A", number |-> I(2), coords |-> [kind |-> "Molecule", id |-> "m"]],
     [name |-> "B", number |-> I(3), coords |-> [kind |-> "Molecule", id |-> "m"]]}

NoBox == [given |-> FALSE, vals |-> <<>>]
Boxes ==
    {NoBox,
     [given |-> TRUE, vals |-> <<>>],
     [given |-> TRUE, vals |-> <<F(0), F(0), F(5), I(10), F(105), F(120)>>]}

Maxit == [k |-> "maxit", v |-> I(20)]
Fbins == [k |-> "fbins", v |-> [t |-> "list", items |-> <<F(15), I(2)>>]]
Settings ==
    {[tolerance |-> F(20), seed |-> I(1), control_params |-> <<>>],
     [tolerance |-> F(15), seed |-> I(-1), control_params |-> <<Maxit, Fbins>>],
     [tolerance |-> F(20), seed |-> I(-1), control_params |-> <<Fbins, Maxit>>]}

\* __init__ with the default inputfile and outputfile
Constructed(pth, mols, bx, tol, sd, params) ==
    /\ path = pth
    /\ input = OsPathJoin(pth, <<"packmol.inp">>)
    /\ output = OsPathJoin(pth, <<"packmol_out.xyz">>)
    /\ screen = OsPathJoin(pth, <<"packmol.stdout">>)
    /\ molecules = mols
    /\ control_params = params
    /\ box = bx
    /\ tolerance = tol
    /\ seed = sd

Fresh ==
    /\ files = <<>>
    /\ p = NoProc
    /\ raised = [NoRaise EXCEPT !.exc = "uncalled"]
    /\ launched = 0
    /\ lastOk = [some |-> FALSE, text |-> <<>>]
    /\ mkRaised = "uncalled"
    /\ loaded = <<>>
    /\ measured = <<>>
    /\ net_volume = 0
    /\ printed = ""

InitRun ==
    /\ Constructed(WorkDir, <<>>, NoBox, F(20), I(1), <<>>)
    /\ cwd = WorkDir
    /\ Fresh

InitMake ==
    /\ \E mols \in SeqsUpTo(MoleculeDicts, MaxMols), bx \in Boxes, st \in Settings :
          Constructed(WorkDir, mols, bx, st.tolerance, st.seed, st.control_params)
    /\ cwd \in Dirs
    /\ Fresh

NextRun == RunPackmol
NextMake == MakePackmolInput

SpecRun == InitRun /\ [][NextRun]_vars
SpecMake == InitMake /\ [][NextMake]_vars

(***************************************************************************)
(* Properties of run_packmol (checked under SpecRun).                      *)
(***************************************************************************)
Called == raised.exc # "uncalled"
ScreenFile == Resolve(cwd, screen)
ErrorText == <<"E", "R", "R", "O", "R">>

\* the greatest index at which sep occurs in s, 0 if it does not occur
FindLast(s, sep) ==
    LET hits == {i \in 1..(Len(s) - Len(sep) + 1) :
                    SubSeq(s, i, i + Len(sep) - 1) = sep}
    IN IF hits = {} THEN 0
       ELSE CHOOSE i \in hits : \A j \in hits : j <= i

AfterFirst(s, sep) == SubSeq(s, Find(s, sep) + Len(sep), Len(s))
AfterLast(s, sep) == SubSeq(s, FindLast(s, sep) + Len(sep), Len(s))

\* the last call's process exited 0 and its stdout, decoded, holds "ERROR"
ZeroExitWithMarker ==
    /\ Called
    /\ ~p.timedOut
    /\ p.returncode = 0
    /\ decode(p.stdout).ok
    /\ FindLast(decode(p.stdout).text, ErrorText) # 0

C2_TimeoutLeavesLog ==
    [][p'.timedOut => (raised'.exc = "TimeoutExpired" /\ files' = files)]_vars

\* a timeout with partial output, after a run that wrote another log
C2_TimeoutAfterLog ==
    /\ p.timedOut
    /\ raised.exc = "TimeoutExpired"
    /\ p.stdout # <<>>
    /\ decode(p.stdout).ok
    /\ ScreenFile \in DOMAIN files
    /\ files[ScreenFile] # decode(p.stdout).text

\* C3: after any calls, the log holds exactly the decoded stdout of the most
\* recent successful call (within the timeout, exit 0, no "ERROR"), and does
\* not exist if no call has succeeded; so a failing call leaves it alone.
C3_LogIsLastSuccess ==
    IF lastOk.some
    THEN ScreenFile \in DOMAIN files /\ files[ScreenFile] = lastOk.text
    ELSE ScreenFile \notin DOMAIN files

\* a call that failed on the marker, after a success that wrote "x"
C3_FailureAfterSuccess ==
    /\ lastOk.some
    /\ ZeroExitWithMarker
    /\ ScreenFile \in DOMAIN files
    /\ files[ScreenFile] = <<"x">>

\* C4: a non-zero exit raises the tool failure carrying that exit code and
\* the captured stderr, whatever stdout holds; every call launches exactly
\* one process.
C4_NonZeroExitFirst ==
    /\ Called => launched = 1
    /\ (Called /\ ~p.timedOut /\ p.returncode # 0) =>
          /\ raised.exc = "ValueError"
          /\ raised.kind = "errorcode"
          /\ raised.code = p.returncode
          /\ raised.stderr = p.stderr
          /\ raised.text = <<>>

\* a non-zero exit whose stdout holds the marker
C4_NonZeroWithMarker ==
    /\ Called
    /\ p.returncode = 2
    /\ p.stderr # <<>>
    /\ Find(p.stdout, ERROR) # 0
    /\ raised.kind = "errorcode"

(***************************************************************************)
(* Properties of make_packmol_input (checked under SpecMake).              *)
(***************************************************************************)
\* the last call of make_packmol_input returned normally
Made == mkRaised = "none"
ControlFile == Resolve(cwd, input)
Text == files[ControlFile]
NMol == Len(molecules)

\* the lines after the output line and the blank line that follows it
OutputAt(text) == CHOOSE i \in 1..Len(text) : text[i][1] = "output"
BlocksOf(text) == SubSeq(text, OutputAt(text) + 2, Len(text))

LinesStarting(text, w) == {i \in 1..Len(text) : text[i][1] = w}
InsideLines(text) ==
    {i \in 1..Len(text) : Len(text[i]) >= 4 /\ text[i][3] = "inside"}

\* C5: the control file holds exactly N blocks, the k-th for the k-th
\* molecule, each made of the lines structure, number, inside box,
\* end structure and a blank line.
C5_OneBlockPerMolecule ==
    Made =>
        LET b == BlocksOf(Text) IN
        /\ Len(b) = 5 * NMol
        /\ Cardinality(LinesStarting(Text, "structure")) = NMol
        /\ \A k \in 1..NMol :
            LET d == molecules[k]
                at == 5 * (k - 1)
            IN /\ Len(b[at + 1]) = 2
               /\ b[at + 1][1] = "structure"
               /\ d.coords.kind = "str" => b[at + 1][2] = "a.xyz"
               /\ d.coords.kind = "Path" => b[at + 1][2] = "mols/b.xyz"
               /\ b[at + 2] = <<"", "", "number", IF d.number = I(2) THEN "2" ELSE "3">>
               /\ SubSeq(b[at + 3], 1, 4) = <<"", "", "inside", "box">>
               /\ b[at + 4] = <<"end", "structure">>
               /\ b[at + 5] = <<"">>

\* two blocks, of a Path with count 3 and then of a Molecule with count 2
C5_TwoKinds ==
    /\ Made
    /\ NMol = 2
    /\ molecules[1].coords.kind = "Path"
    /\ molecules[2].coords.kind = "Molecule"
    /\ molecules[2].number = I(2)

\* C6 as claimed: the sidecar file of the Molecule at zero-based position i
\* is packmol_molecule_<i>.xyz in the configured working directory, the
\* directory of the control file.
C6_SidecarInWorkingDirectory ==
    Made =>
        \A k \in 1..NMol :
            IsMolecule(molecules[k].coords) =>
                /\ OsPathJoin(path, <<SidecarName(k - 1)>>) \in DOMAIN files
                /\ DirOf(ControlFile) = path

\* C7: with a box of six values given, nothing is loaded or measured and no
\* side length is printed, and every inside box line carries the six values
\* in the order given.
C7_GivenBoxVerbatim ==
    (box.given /\ Len(box.vals) = 6 /\ mkRaised # "uncalled") =>
        /\ loaded = <<>>
        /\ measured = <<>>
        /\ printed = ""
        /\ Made =>
            /\ Cardinality(InsideLines(Text)) = NMol
            /\ \A i \in InsideLines(Text) :
                /\ Text[i] = <<"", "", "inside", "box">>
                               \o [j \in 1..6 |-> Str(box.vals[j])]
                /\ box.vals = <<F(0), F(0), F(5), I(10), F(105), F(120)>> =>
                      Text[i] = <<"", "", "inside", "box",
                                  "0.0", "0.0", "0.5", "10", "10.5", "12.0">>

\* a box given, two blocks written
C7_GivenBoxTwoBlocks ==
    /\ Made
    /\ box.given
    /\ Len(box.vals) = 6
    /\ NMol = 2
    /\ Cardinality(InsideLines(Text)) = 2

\* the control file as a reader finds it
ControlFileIn(fs) ==
    IF ControlFile \in DOMAIN fs
    THEN [exists |-> TRUE, text |-> fs[ControlFile]]
    ELSE [exists |-> FALSE, text |-> <<>>]

\* C8 as claimed: a call that fails, at whichever step, leaves the control
\* file with the content it had before the call, or still absent.
C8_FailureLeavesControlFile ==
    [][mkRaised' \in {"LoadError", "OpenError", "ToError"}
          => ControlFileIn(files') = ControlFileIn(files)]_vars

ExpectedOption(kv) ==
    IF kv.k = "maxit" THEN <<"maxit", "20">> ELSE <<"fbins", "1.5", "2">>

\* C9: the control file starts with the two header comments, then the
\* options in the mapping's order, the seed line, the tolerance line,
\* filetype xyz and the output line with the output path in double quotes;
\* the structure blocks come only after these.
C9_PreambleOrder ==
    Made =>
        LET n == Len(control_params) IN
        /\ Text[1][1] = "#"
        /\ Text[2] = <<"#", "Packmol", "input", "generated", "by", "mdgo.">>
        /\ \A i \in 1..n : Text[2 + i] = ExpectedOption(control_params[i])
        /\ Text[3 + n] = <<"seed", IF seed = I(1) THEN "1" ELSE "-1">>
        /\ Text[4 + n] = <<"tolerance", IF tolerance = F(20) THEN "2.0" ELSE "1.5">>
        /\ Text[6 + n] = <<"filetype", "xyz">>
        /\ Text[8 + n] = <<"output", "\"/work/packmol_out.xyz\"">>
        /\ LinesStarting(Text, "maxit") \cup LinesStarting(Text, "fbins")
             = 3..(2 + n)
        /\ LinesStarting(Text, "seed") = {3 + n}
        /\ LinesStarting(Text, "output") = {8 + n}
        /\ \A i \in LinesStarting(Text, "structure") : i > 8 + n
        /\ NMol > 0 => Text[10 + n][1] = "structure"

\* the options fbins, maxit in that order, and one block at least
C9_OptionsGiven ==
    /\ Made
    /\ Len(control_params) = 2
    /\ control_params[1].k = "fbins"
    /\ seed = I(-1)
    /\ NMol > 0

\* the volume the k-th molecule dict adds, in thousandths
Contribution(k) ==
    molecular_volume(StructOf(molecules[k].coords)) * Tenths(tolerance)
        * (10 * molecules[k].number.v)

RECURSIVE SumOver(_)
SumOver(S) ==
    IF S = {} THEN 0
    ELSE LET k == CHOOSE x \in S : TRUE IN Contribution(k) + SumOver(S \ {k})

\* the side length to one decimal, in tenths, of the cube of volume net
\* (thousandths): the T with |T - 10 L| < 1/2
SideOf(net) ==
    CHOOSE T \in 0..100 :
        /\ (2*T - 1) * (2*T - 1) * (2*T - 1) <= 8 * net
        /\ 8 * net < (2*T + 1) * (2*T + 1) * (2*T + 1)

\* A with count 2 and volume 2.0, B with count 3 and volume 1.0
ExampleMolecules ==
    <<[name |-> "A", number |-> I(2), coords |-> [kind |-> "str", s |-> "a.xyz"]],
      [name |-> "B", number |-> I(3),
       coords |-> [kind |-> "Path", parts |-> <<"mols", "b.xyz">>]]>>

\* C10: with no box given, every molecule dict is measured once, the total
\* volume is the sum of volume x tolerance x count over all of them, and
\* every inside box line is 0.0 0.0 0.0 L L L with L the cube root of the
\* total (written to one decimal); volumes 2 and 1 with counts 2 and 3 and
\* tolerance 2 give 14.
C10_EstimatedBox ==
    (~box.given /\ Made) =>
        /\ measured = [k \in 1..NMol |-> StructOf(molecules[k].coords)]
        /\ net_volume = SumOver(1..NMol)
        /\ printed = Str(F(SideOf(net_volume)))
        /\ Cardinality(InsideLines(Text)) = NMol
        /\ \A i \in InsideLines(Text) :
              Text[i] = <<"", "", "inside", "box", "0.0", "0.0", "0.0",
                          printed, printed, printed>>
        /\ (molecules = ExampleMolecules /\ tolerance = F(20)) =>
              /\ net_volume = 14000
              /\ printed = "2.4"

\* the example: total volume 14
C10_Example ==
    /\ Made
    /\ ~box.given
    /\ molecules = ExampleMolecules
    /\ tolerance = F(20)
    /\ net_volume = 14000
    /\ Cardinality(InsideLines(Text)) = 2

====
